---- MODULE Spec2Model ----
(***************************************************************************)
(* TerrainGenerator: the wave-function-collapse core of src/main.js.       *)
(* State: the Grid (its #width, #height and matrix of Square /            *)
(* CollapedSquare objects), the position of an in-flight generate() run,   *)
(* the disabled flag of the drag-box controls, the exception the last      *)
(* call raised and the last operation called.                              *)
(***************************************************************************)
EXTENDS Integers, Sequences, FiniteSets, TLC

\* ---------------------------------------------------------------- bounds
\* Largest width, largest height and largest number of positions
\* (width * height) of the grids that are explored.
MaxWidth == 3
MaxHeight == 2
MaxCells == 6
\* Integers handed to the setters and the constructor range from -MaxNeg up.
MaxNeg == 1

\* ------------------------------------------------------------ JS numbers
\* A JavaScript value handed to a setter: an integer n, the non-integer
\* n + 0.5, NaN, +/-Infinity (n is the sign) or undefined.
JsInt(i) == [k |-> "int", n |-> i]
JsFrac(i) == [k |-> "frac", n |-> i]
JsNaN == [k |-> "nan", n |-> 0]
JsInf(sign) == [k |-> "inf", n |-> sign]
JsUndefined == [k |-> "undefined", n |-> 0]

FiniteValues ==
  {JsInt(i) : i \in (0 - MaxNeg)..(IF MaxWidth > MaxHeight THEN MaxWidth ELSE MaxHeight)}
    \cup {JsFrac(i) : i \in (0 - MaxNeg)..1}
JsValues == FiniteValues \cup {JsNaN, JsInf(1), JsInf(0 - 1)}

\* Number.isInteger(val)
NumberIsInteger(val) == val.k = "int"

\* val <= 0 (false for NaN and undefined)
LessOrEqualZero(val) ==
  CASE val.k = "int" -> val.n <= 0
    [] val.k = "frac" -> val.n < 0
    [] val.k = "inf" -> val.n < 0
    [] OTHER -> FALSE

\* ToLength(val), as Array.from applies it to {length: val}, for the values
\* whose length an Array can have
ToLength(val) ==
  CASE val.k = "int" -> IF val.n <= 0 THEN 0 ELSE val.n
    [] val.k = "frac" -> IF val.n <= 0 THEN 0 ELSE val.n
    [] OTHER -> 0

\* Array.from({length: val}) raises RangeError (invalid array length) when
\* ToLength(val) exceeds 2^32 - 1: of the values above, for +Infinity alone,
\* whose ToLength is 2^53 - 1.
ArrayFromThrows(val) == val.k = "inf" /\ val.n > 0

\* ------------------------------------------------------------- sequences
Range(s) == {s[i] : i \in DOMAIN s}

SeqIncludes(s, e) == \E i \in DOMAIN s : s[i] = e

\* s with the element at index i spliced out
Splice(s, i) == SubSeq(s, 1, i - 1) \o SubSeq(s, i + 1, Len(s))

\* ------------------------------------------------------ State, Constraints
\* State.all_list: the static symbols of class State in declaration order
all_list == <<"deep", "water", "beach", "grass", "trees", "mountain", "snow">>

Undefined == "undefined"

\* State.getName(state)
getName(state) == IF SeqIncludes(all_list, state) THEN state ELSE Undefined

\* Constraints[name]; undefined for a name that is no state
Constraints(name) ==
  CASE name = "deep" -> [states |-> <<"deep", "water">>, weights |-> <<6, 1>>]
    [] name = "water" -> [states |-> <<"deep", "water", "beach">>, weights |-> <<1, 4, 6>>]
    [] name = "beach" -> [states |-> <<"water", "beach", "grass">>, weights |-> <<2, 1, 3>>]
    [] name = "grass" -> [states |-> <<"mountain", "beach", "grass", "trees">>, weights |-> <<1, 1, 3, 2>>]
    [] name = "trees" -> [states |-> <<"mountain", "grass", "trees">>, weights |-> <<1, 1, 2>>]
    [] name = "mountain" -> [states |-> <<"snow", "trees", "grass", "mountain">>, weights |-> <<2, 2, 1, 2>>]
    [] name = "snow" -> [states |-> <<"snow", "mountain">>, weights |-> <<2, 3>>]
    [] OTHER -> [states |-> <<>>, weights |-> <<>>]

\* Filter.#allConstraints.length: the static entries of class Constraints
allConstraintsLength == 7

\* ------------------------------------------------------------------ cells
NoState == "none"

\* new Square(x, y)
Square(x, y) == [kind |-> "Square", states |-> [i \in 1..Len(all_list) |-> all_list[i]],
                 state |-> NoState, pos |-> [x |-> x, y |-> y]]

\* new CollapedSquare(x, y, state)
CollapedSquare(x, y, state) == [kind |-> "CollapedSquare", states |-> <<>>,
                                state |-> state, pos |-> [x |-> x, y |-> y]]

\* what Grid.get returns for a position that does not exist
UndefinedCell == [kind |-> "undefined", states |-> <<>>, state |-> NoState, pos |-> [x |-> 0, y |-> 0]]

\* Square.entropy
entropy(square) == Len(square.states)

\* ----------------------------------------------------------------- Filter
\* A Filter is its #constraints array.

\* Filter.includes(constraint)
FilterIncludes(this, constraint) == SeqIncludes(this, constraint)

\* Filter.size
FilterSize(this) == Len(this)

\* Filter.hasAll
FilterHasAll(this) == Len(this) = allConstraintsLength

\* Filter.equals(filter)
FilterEquals(this, filter) ==
  IF FilterSize(this) # FilterSize(filter) THEN FALSE
  ELSE \A i \in DOMAIN filter : FilterIncludes(this, filter[i])

\* Filter.filter(stateList): walks stateList from its last index down and
\* splices out every state the filter does not include
RECURSIVE FilterFrom(_, _, _)
FilterFrom(this, stateList, i) ==
  IF i < 1 THEN stateList
  ELSE IF ~FilterIncludes(this, stateList[i]) THEN FilterFrom(this, Splice(stateList, i), i - 1)
  ELSE FilterFrom(this, stateList, i - 1)

\* A faulty filter whose loop ends at i > 0: index 0 is never spliced out.
FilterFilterKeepFirst(this, stateList) ==
  IF stateList = <<>> THEN <<>>
  ELSE <<stateList[1]>> \o FilterFrom(this, Tail(stateList), Len(stateList) - 1)

FilterFilter(this, stateList) == FilterFrom(this, stateList, Len(stateList))

\* [].concat(...constraints)
RECURSIVE ConcatFrom(_, _)
ConcatFrom(lists, i) == IF i > Len(lists) THEN <<>> ELSE lists[i] \o ConcatFrom(lists, i + 1)

Concat(lists) == ConcatFrom(lists, 1)

\* [...new Set(list)]: the distinct elements in order of first occurrence
RECURSIVE SetOrderFrom(_, _, _)
SetOrderFrom(list, i, acc) ==
  IF i > Len(list) THEN acc
  ELSE IF SeqIncludes(acc, list[i]) THEN SetOrderFrom(list, i + 1, acc)
  ELSE SetOrderFrom(list, i + 1, Append(acc, list[i]))

SetOrder(list, acc) == SetOrderFrom(list, 1, acc)

\* A faulty filter_union that takes the first compatibility array alone.
filter_unionFirst(constraints) ==
  IF constraints = <<>> THEN <<>> ELSE SetOrder(constraints[1], <<>>)

\* Filter.filter_union(constraints)
filter_union(constraints) == SetOrder(Concat(constraints), <<>>)

\* A faulty combine loop in which every filter adds its members to the Set,
\* none deletes.
RECURSIVE CombineFromAdding(_, _, _)
CombineFromAdding(filters, i, result) ==
  IF i > Len(filters) THEN result
  ELSE CombineFromAdding(filters, i + 1, SetOrder(filters[i], result))

\* Filter.combine(filters): a Set seeded from filters[0]; every later filter
\* deletes the members it does not include
RECURSIVE CombineFrom(_, _, _)
CombineFrom(filters, i, result) ==
  IF i > Len(filters) THEN result
  ELSE IF i = 1 THEN CombineFrom(filters, i + 1, SetOrder(filters[1], result))
  ELSE CombineFrom(filters, i + 1, SelectSeq(result, LAMBDA c : FilterIncludes(filters[i], c)))

\* A faulty combine that returns the first filter recorded, dropping the
\* intersection with the others.
combineFirst(filters) == IF filters = <<>> THEN <<>> ELSE filters[1]

combine(filters) == CombineFrom(filters, 1, <<>>)

\* ------------------------------------------------------------------- Grid
\* The matrix Grid.grid is a 0-based array of columns, each a 0-based array
\* of cells: grid[x][y].

\* Array.from({length: v}, (_, x) => Array.from({length: h}, (_, y) => new Square(x, y)))
NewMatrix(v, h) ==
  [x \in 0..(ToLength(v) - 1) |-> [y \in 0..(ToLength(h) - 1) |-> Square(x, y)]]

\* A faulty #resize that keeps the cells of the positions that already exist
\* and only adds fresh Squares.
resizeKeepingCells(g, w, h) ==
  [x \in 0..(ToLength(w) - 1) |->
     [y \in 0..(ToLength(h) - 1) |->
        IF x \in DOMAIN g /\ y \in DOMAIN g[x] THEN g[x][y] ELSE Square(x, y)]]

\* Grid.#resize() on a Grid whose matrix is g, reading this.width (w) and
\* this.height (h): the new matrix
resize(g, w, h) == NewMatrix(w, h)

\* Grid.get(x, y), the try block: this.grid[x][y].  this.grid[x] is undefined
\* for an x that is no index of the matrix, and reading [y] of undefined
\* raises TypeError; line[y] is undefined for a y that is no index of the
\* line.
GridGetTry(g, x, y) ==
  IF x \in DOMAIN g
  THEN [thrown |-> "none", value |-> IF y \in DOMAIN g[x] THEN g[x][y] ELSE UndefinedCell]
  ELSE [thrown |-> "TypeError", value |-> UndefinedCell]

\* A faulty get without the catch clause.
GridGetNoCatch(g, x, y) == GridGetTry(g, x, y)

\* Grid.get(x, y) as a call: what it raises and what it returns; the catch
\* clause returns undefined
GridGetCall(g, x, y) ==
  LET tried == GridGetTry(g, x, y)
  IN IF tried.thrown # "none" THEN [thrown |-> "none", value |-> UndefinedCell] ELSE tried

\* Grid.get(x, y): the value returned
GridGet(g, x, y) == GridGetCall(g, x, y).value

\* Grid.set(x, y, val)
GridSet(g, x, y, val) == [g EXCEPT ![x][y] = val]

\* Grid.getNeighbours(x, y)
getNeighbours(g, x, y) ==
  <<GridGet(g, x + 1, y), GridGet(g, x - 1, y), GridGet(g, x, y + 1), GridGet(g, x, y - 1)>>

\* A faulty width setter that assigns #width before it validates val.
SetWidthResultAssignFirst(w, h, g, val) ==
  IF ~NumberIsInteger(val) \/ LessOrEqualZero(val)
  THEN [thrown |-> "ScalingError", width |-> val, height |-> h, grid |-> g]
  ELSE [thrown |-> "none", width |-> val, height |-> h, grid |-> resize(g, val, h)]

\* set width(val): the outcome as [thrown, width, height, grid]
SetWidthResult(w, h, g, val) ==
  IF ~NumberIsInteger(val) \/ LessOrEqualZero(val)
  THEN [thrown |-> "ScalingError", width |-> w, height |-> h, grid |-> g]
  ELSE [thrown |-> "none", width |-> val, height |-> h, grid |-> resize(g, val, h)]

\* set height(val)
SetHeightResult(w, h, g, val) ==
  IF ~NumberIsInteger(val)
  THEN [thrown |-> "ScalingError", width |-> w, height |-> h, grid |-> g]
  ELSE [thrown |-> "none", width |-> w, height |-> val, grid |-> resize(g, w, val)]

\* new Grid(width, height): the matrix is allocated from the raw arguments
\* first, then the two setters run in turn
GridConstructor(w, h) ==
  IF ArrayFromThrows(w) \/ (ToLength(w) > 0 /\ ArrayFromThrows(h))
  THEN [thrown |-> "RangeError", width |-> JsUndefined, height |-> JsUndefined, grid |-> << >>]
  ELSE LET g0 == NewMatrix(w, h)
           afterWidth == SetWidthResult(JsUndefined, JsUndefined, g0, w)
       IN IF afterWidth.thrown # "none" THEN afterWidth
          ELSE SetHeightResult(afterWidth.width, afterWidth.height, afterWidth.grid, h)

\* every position of the matrix in the order of
\* "for (const line of grid) for (const square of line)"
RECURSIVE ScanFrom(_, _, _)
ScanFrom(g, x, y) ==
  IF x \notin DOMAIN g THEN <<>>
  ELSE IF y \notin DOMAIN g[x] THEN ScanFrom(g, x + 1, 0)
  ELSE <<g[x][y]>> \o ScanFrom(g, x, y + 1)

ScanOrder(g) == ScanFrom(g, 0, 0)

\* --------------------------------------------------- WaveFunctionCollapse
\* A faulty canStep whose scan ends with the first line of the matrix.
canStepFirstLine(g) == 0 \in DOMAIN g /\ \E y \in DOMAIN g[0] : g[0][y].kind = "Square"

\* WaveFunctionCollapse.canStep(): some position holds a Square
canStep(g) == \E x \in DOMAIN g : \E y \in DOMAIN g[x] : g[x][y].kind = "Square"

\* step(), "Find set of lowest entropy": the Set, in insertion order, of the
\* positions of the squares the scan keeps
RECURSIVE LowestEntropyScan(_, _, _, _)
LowestEntropyScan(g, order, i, set) ==
  IF i > Len(order) THEN set
  ELSE LET square == order[i] IN
    IF square.kind = "CollapedSquare" THEN LowestEntropyScan(g, order, i + 1, set)
    ELSE IF set = <<>> THEN LowestEntropyScan(g, order, i + 1, <<square.pos>>)
    ELSE LET first == GridGet(g, set[1].x, set[1].y) IN
      IF entropy(square) < entropy(first) THEN LowestEntropyScan(g, order, i + 1, <<square.pos>>)
      ELSE IF entropy(square) = entropy(first) THEN LowestEntropyScan(g, order, i + 1, Append(set, square.pos))
      ELSE LowestEntropyScan(g, order, i + 1, set)

\* A faulty choice that breaks ties by scan order: the Set holds only the
\* first square the scan kept.
lowestEntropySetFirstScanned(g) ==
  LET set == LowestEntropyScan(g, ScanOrder(g), 1, <<>>)
  IN IF set = <<>> THEN <<>> ELSE <<set[1]>>

lowestEntropySet(g) == LowestEntropyScan(g, ScanOrder(g), 1, <<>>)

\* An object with symbol keys is the sequence of its [key, value] entries in
\* insertion order (the order of symbolEntries).
HasOwn(obj, key) == \E i \in DOMAIN obj : obj[i].key = key

ObjGet(obj, key) == obj[CHOOSE i \in DOMAIN obj : obj[i].key = key].value

\* obj[key] = value
ObjPut(obj, key, value) ==
  IF HasOwn(obj, key)
  THEN [i \in DOMAIN obj |-> IF obj[i].key = key THEN [key |-> key, value |-> value] ELSE obj[i]]
  ELSE Append(obj, [key |-> key, value |-> value])

\* step(), the .map callback: weightObj of one collapsed neighbour
weightObj(sqr) ==
  LET constraints == Constraints(getName(sqr.state)) IN
    [i \in DOMAIN constraints.states |-> [key |-> constraints.states[i], value |-> constraints.weights[i]]]

\* step(), the .reduce callback: the entries of curr added into prev
RECURSIVE AddEntries(_, _, _)
AddEntries(prev, curr, i) ==
  IF i > Len(curr) THEN prev
  ELSE IF HasOwn(prev, curr[i].key)
       THEN AddEntries(ObjPut(prev, curr[i].key, ObjGet(prev, curr[i].key) + curr[i].value), curr, i + 1)
       ELSE AddEntries(ObjPut(prev, curr[i].key, curr[i].value), curr, i + 1)

RECURSIVE ReduceWeights(_, _, _)
ReduceWeights(objs, i, prev) ==
  IF i > Len(objs) THEN prev ELSE ReduceWeights(objs, i + 1, AddEntries(prev, objs[i], 1))

\* step(): the weights gathered from the CollapedSquare neighbours of (x, y)
weights(g, x, y) ==
  LET collapsed == SelectSeq(getNeighbours(g, x, y), LAMBDA sqr : sqr.kind = "CollapedSquare")
  IN ReduceWeights([i \in DOMAIN collapsed |-> weightObj(collapsed[i])], 1, <<>>)

\* Constraints[State.getName(sqr.state)] is undefined for a neighbour whose
\* state is no catalog state, and reading .states of it raises TypeError
weightsThrows(g, x, y) ==
  \E i \in 1..4 : LET sqr == getNeighbours(g, x, y)[i] IN
    sqr.kind = "CollapedSquare" /\ getName(sqr.state) = Undefined

\* Square.collapse(unfilteredWeights): the filteredWeights object
RECURSIVE AddUnfiltered(_, _, _, _)
AddUnfiltered(filteredWeights, states, unfilteredWeights, i) ==
  IF i > Len(unfilteredWeights) THEN filteredWeights
  ELSE LET e == unfilteredWeights[i] IN
    IF SeqIncludes(states, e.key)
    THEN AddUnfiltered(ObjPut(filteredWeights, e.key, ObjGet(filteredWeights, e.key) + e.value),
                       states, unfilteredWeights, i + 1)
    ELSE AddUnfiltered(filteredWeights, states, unfilteredWeights, i + 1)

\* A faulty collapse whose filteredWeights start at 0 instead of 1.
filteredWeightsFromZero(square, unfilteredWeights) ==
  AddUnfiltered([i \in DOMAIN square.states |-> [key |-> square.states[i], value |-> 0]],
                square.states, unfilteredWeights, 1)

filteredWeights(square, unfilteredWeights) ==
  AddUnfiltered([i \in DOMAIN square.states |-> [key |-> square.states[i], value |-> 1]],
                square.states, unfilteredWeights, 1)

\* symbolValues(weights).reduce((p, c) => p + c, 0)
RECURSIVE SumValues(_, _)
SumValues(obj, i) == IF i > Len(obj) THEN 0 ELSE obj[i].value + SumValues(obj, i + 1)

\* weightedRandom(weights), the loop for one drawn rand: the key at which
\* the remainder first goes negative, undefined when it never does
RECURSIVE WeightedLoop(_, _, _)
WeightedLoop(obj, i, rand) ==
  IF i > Len(obj) THEN Undefined
  ELSE IF rand - obj[i].value < 0 THEN obj[i].key
  ELSE WeightedLoop(obj, i + 1, rand - obj[i].value)

\* weightedRandom(weights): every key some rand in [0, max) selects.  The
\* entries are integers, so rand and its integer part select the same key.
weightedRandom(obj) ==
  LET max == SumValues(obj, 1) IN
    IF max = 0 THEN {WeightedLoop(obj, 1, 0)}
    ELSE {WeightedLoop(obj, 1, rand) : rand \in 0..(max - 1)}

\* Square.collapse(unfilteredWeights): the CollapedSquares it can return
collapse(square, unfilteredWeights) ==
  {CollapedSquare(square.pos.x, square.pos.y, state) :
     state \in weightedRandom(filteredWeights(square, unfilteredWeights))}

\* JSON.stringify(square.pos)
JSONstringify(pos) == "{\"x\":" \o ToString(pos.x) \o ",\"y\":" \o ToString(pos.y) \o "}"

\* JSON.parse(key), for a key JSON.stringify made of a position of g
JSONparse(g, key) ==
  LET all == ScanOrder(g) IN
    all[CHOOSE i \in DOMAIN all : JSONstringify(all[i].pos) = key].pos

\* filterList is the sequence of its [key, value] entries in insertion order
\* (the order of Object.entries); value is the array of Filters pushed.
\* filterList[posString].push(filter), creating the array when absent
PushFilter(filterList, posString, filter) ==
  IF HasOwn(filterList, posString)
  THEN ObjPut(filterList, posString, Append(ObjGet(filterList, posString), filter))
  ELSE ObjPut(filterList, posString, <<filter>>)

\* A faulty filterSet that holds the compatibility array of the first state
\* left only.
filterSetFirst(states) ==
  IF states = <<>> THEN <<>> ELSE <<Constraints(getName(states[1])).states>>

\* the compatibility arrays of the states left: filterSet of #setFilters
filterSet(states) == [i \in DOMAIN states |-> Constraints(getName(states[i])).states]

\* A faulty #setFilters without the instanceof and path guards: it records
\* a filter for whatever get(x, y) returned and explores no further.
setFiltersUnguarded(g, x, y, filter, completed) ==
  IF FilterHasAll(filter) THEN <<>>
  ELSE LET square == GridGet(g, x, y)
       IN <<[key |-> JSONstringify(square.pos), value |-> FilterFilter(filter, square.states)]>>

\* A faulty #setFilters whose instanceof guard lets CollapedSquares through
\* and stops at absent positions only.
RECURSIVE setFiltersIntoCollapsed(_, _, _, _, _)
setFiltersIntoCollapsed(g, x, y, filter, completed) ==
  IF FilterHasAll(filter) THEN <<>>
  ELSE LET square == GridGet(g, x, y) IN
    IF square.kind = "undefined" THEN <<>>
    ELSE IF SeqIncludes(completed, square.pos) THEN <<>>
    ELSE IF FilterEquals(square.states, filter) THEN <<>>
    ELSE LET completed2 == Append(completed, square.pos)
             states == FilterFilter(filter, square.states)
             posString == JSONstringify(square.pos)
             newFilter == filter_union(filterSet(states))
         IN <<[key |-> posString, value |-> states]>>
            \o setFiltersIntoCollapsed(g, x + 1, y, newFilter, completed2)
            \o setFiltersIntoCollapsed(g, x - 1, y, newFilter, completed2)
            \o setFiltersIntoCollapsed(g, x, y + 1, newFilter, completed2)
            \o setFiltersIntoCollapsed(g, x, y - 1, newFilter, completed2)

\* WaveFunctionCollapse.#setFilters(x, y, filter, filterList, completed):
\* the [key, filter] pairs the call pushes onto filterList, in the order it
\* pushes them (its own, then those of the calls toward +x, -x, +y, -y).
\* The call reads the matrix only, never filterList, so the pairs do not
\* depend on what was pushed before.  completed holds the positions of the
\* squares of the current path; each recursive call gets its own copy.
RECURSIVE setFilters(_, _, _, _, _)
setFilters(g, x, y, filter, completed) ==
  IF FilterHasAll(filter) THEN <<>>
  ELSE LET square == GridGet(g, x, y) IN
    IF square.kind # "Square" THEN <<>>
    ELSE IF SeqIncludes(completed, square.pos) THEN <<>>
    ELSE IF FilterEquals(square.states, filter) THEN <<>>
    ELSE LET completed2 == Append(completed, square.pos)
             states == FilterFilter(filter, square.states)
             posString == JSONstringify(square.pos)
             newFilter == filter_union(filterSet(states))
         IN <<[key |-> posString, value |-> states]>>
            \o setFilters(g, x + 1, y, newFilter, completed2)
            \o setFilters(g, x - 1, y, newFilter, completed2)
            \o setFilters(g, x, y + 1, newFilter, completed2)
            \o setFilters(g, x, y - 1, newFilter, completed2)

\* filterList after the pushes: Object.hasOwn / new Array() / push
RECURSIVE PushAll(_, _, _)
PushAll(filterList, pushes, i) ==
  IF i > Len(pushes) THEN filterList
  ELSE PushAll(PushFilter(filterList, pushes[i].key, pushes[i].value), pushes, i + 1)

\* A faulty #propagateFilter that filters a copy of each square's states,
\* leaving the matrix as it was.
propagateFilterOnCopy(g, filterList) == g

\* WaveFunctionCollapse.#propagateFilter(filterList): the matrix after every
\* entry's combined filter has been applied to the states of its square
RECURSIVE propagateFrom(_, _, _)
propagateFrom(g, filterList, i) ==
  IF i > Len(filterList) THEN g
  ELSE LET pos == JSONparse(g, filterList[i].key)
           combined == combine(filterList[i].value)
           square == GridGet(g, pos.x, pos.y)
       IN propagateFrom(GridSet(g, pos.x, pos.y,
                                [square EXCEPT !.states = FilterFilter(combined, square.states)]),
                        filterList, i + 1)

propagateFilter(g, filterList) == propagateFrom(g, filterList, 1)

\* A faulty "Set filters" that seeds the calls toward +x and -x only.
stepFilterListHorizontal(g, randPos, filter) ==
  PushAll(<<>>,
          setFilters(g, randPos.x + 1, randPos.y, filter, <<>>)
          \o setFilters(g, randPos.x - 1, randPos.y, filter, <<>>),
          1)

\* step(), "Set filters": filterList after the four calls around randPos,
\* in the code's order
stepFilterList(g, randPos, filter) ==
  PushAll(<<>>,
          setFilters(g, randPos.x + 1, randPos.y, filter, <<>>)
          \o setFilters(g, randPos.x - 1, randPos.y, filter, <<>>)
          \o setFilters(g, randPos.x, randPos.y + 1, filter, <<>>)
          \o setFilters(g, randPos.x, randPos.y - 1, filter, <<>>),
          1)

\* step() from "Set filters" on, g holding collapsedSquare at its position
propagate(g, collapsedSquare) ==
  LET filter == Constraints(getName(collapsedSquare.state)).states
  IN propagateFilter(g, stepFilterList(g, collapsedSquare.pos, filter))

\* A faulty step that never stores the CollapedSquare it drew.
stepResultUnstored(g, randPos, collapsedSquare) ==
  [thrown |-> "none", grid |-> propagate(g, collapsedSquare)]

\* WaveFunctionCollapse.step() once randPos and collapsedSquare are drawn:
\* [thrown, grid].  Constraints[undefined].states raises TypeError after the
\* CollapedSquare has been stored.
stepResult(g, randPos, collapsedSquare) ==
  LET stored == GridSet(g, randPos.x, randPos.y, collapsedSquare) IN
    IF getName(collapsedSquare.state) = Undefined
    THEN [thrown |-> "TypeError", grid |-> stored]
    ELSE [thrown |-> "none", grid |-> propagate(stored, collapsedSquare)]

\* step(), "Collapse random square from set with weights": every pair of
\* randPos and collapsedSquare the two random draws can produce
stepDraws(g) ==
  UNION {
    {[randPos |-> randPos, collapsedSquare |-> collapsedSquare] :
       collapsedSquare \in collapse(GridGet(g, randPos.x, randPos.y),
                                    weights(g, randPos.x, randPos.y))}
    : randPos \in Range(lowestEntropySet(g))}

\* A faulty step without the canStep() check: on a grid without a Square
\* lowestEntropySet is empty, Array.from(lowestEntropySet)[NaN] is undefined
\* and reading .pos of it raises TypeError.
stepWithoutCheck(g) ==
  IF ~canStep(g) THEN {[thrown |-> "TypeError", grid |-> g]}
  ELSE {stepResult(g, d.randPos, d.collapsedSquare) : d \in stepDraws(g)}

\* WaveFunctionCollapse.step(): every [thrown, grid] a call can end in
step(g) ==
  IF ~canStep(g) THEN {[thrown |-> "none", grid |-> g]}
  ELSE IF \E randPos \in Range(lowestEntropySet(g)) : weightsThrows(g, randPos.x, randPos.y)
       THEN {[thrown |-> "TypeError", grid |-> g]}
            \cup {stepResult(g, d.randPos, d.collapsedSquare) :
                    d \in {e \in stepDraws(g) : ~weightsThrows(g, e.randPos.x, e.randPos.y)}}
       ELSE {stepResult(g, d.randPos, d.collapsedSquare) : d \in stepDraws(g)}

\* A faulty reset that builds height columns of width cells.
resetTransposed(g, w, h) == NewMatrix(h, w)

\* WaveFunctionCollapse.reset() on a Grid whose matrix is g, reading
\* grid.width (w) and grid.height (h): the new matrix
reset(g, w, h) == NewMatrix(w, h)

\* ------------------------------------------------------------------ state
VARIABLES
  grid,      \* Grid.grid
  width,     \* Grid.#width
  height,    \* Grid.#height
  pc,        \* "idle": no run in flight; "run": inside the synchronous chain
             \* of generate() calls; "sleep": generate() awaits sleep(1);
             \* "failed": new Grid(...) raised
  depth,     \* the depth argument of the next generate() call of the run
  disabled,  \* the disabled flag generate() sets on the drag-box controls
  thrown,    \* the exception the last call raised, "none" if it returned
  last       \* the last operation called on the grid or the engine: "new",
             \* "width", "height", "step", "reset", or "generate" while the
             \* first generate() call of a run has not taken its step

vars == <<grid, width, height, pc, depth, disabled, thrown, last>>

\* the dimensions explored
WithinBound(w, h) ==
  /\ NumberIsInteger(w) => w.n <= MaxWidth
  /\ NumberIsInteger(h) => h.n <= MaxHeight
  /\ (NumberIsInteger(w) /\ NumberIsInteger(h)) => ToLength(w) * ToLength(h) <= MaxCells

\* const grid = new Grid(width, height); wfc = new WaveFunctionCollapse(grid)
Init ==
  \E w \in JsValues, h \in JsValues :
    /\ WithinBound(w, h)
    /\ LET made == GridConstructor(w, h) IN
         /\ grid = made.grid
         /\ width = made.width
         /\ height = made.height
         /\ thrown = made.thrown
         /\ pc = IF made.thrown = "none" THEN "idle" ELSE "failed"
    /\ depth = 0
    /\ disabled = FALSE
    /\ last = "new"

\* A faulty host that runs an event handler while a generate() call is on
\* the stack.
HostTurnAnytime == pc \in {"idle", "sleep", "run"}

\* the host has control (an event handler can run): no generate() call is
\* on the stack
HostTurn == pc \in {"idle", "sleep"}

\* grid.width = val
SetWidth(val) ==
  /\ HostTurn
  /\ WithinBound(val, height)
  /\ last' = "width"
  /\ UNCHANGED <<pc, depth, disabled>>
  /\ LET r == SetWidthResult(width, height, grid, val) IN
       /\ grid' = r.grid
       /\ width' = r.width
       /\ height' = r.height
       /\ thrown' = r.thrown

\* grid.height = val
SetHeight(val) ==
  /\ HostTurn
  /\ WithinBound(width, val)
  /\ last' = "height"
  /\ UNCHANGED <<pc, depth, disabled>>
  /\ LET r == SetHeightResult(width, height, grid, val) IN
       /\ grid' = r.grid
       /\ width' = r.width
       /\ height' = r.height
       /\ thrown' = r.thrown

\* Number(Number(target.value).toFixed(0)): the nearest integer, a tie going
\* away from zero
toFixed0(v) == IF v.k = "frac" THEN JsInt(IF v.n >= 0 THEN v.n + 1 ELSE v.n) ELSE v

\* handleInput({target}): target.value is clamped to at least 1 and handed
\* to the setter target.name selects
handleInputValue(v) == IF LessOrEqualZero(toFixed0(v)) THEN JsInt(1) ELSE toFixed0(v)

HandleInput(name, v) ==
  /\ HostTurn
  /\ LET val == handleInputValue(v)
         r == IF name = "width" THEN SetWidthResult(width, height, grid, val)
              ELSE SetHeightResult(width, height, grid, val)
     IN /\ WithinBound(IF name = "width" THEN val ELSE width, IF name = "width" THEN height ELSE val)
        /\ grid' = r.grid
        /\ width' = r.width
        /\ height' = r.height
        /\ thrown' = r.thrown
  /\ last' = name
  /\ UNCHANGED <<pc, depth, disabled>>

\* A faulty handleBtnClick whose generate case calls wfc.reset() whether or
\* not the grid can step.
HandleBtnClickAlwaysReset(name) ==
  /\ HostTurn
  /\ ~disabled
  /\ CASE name = "generate" ->
            /\ pc' = "run"
            /\ depth' = 1
            /\ thrown' = "none"
            /\ UNCHANGED <<width, height, disabled>>
            /\ last' = "reset"
            /\ grid' = reset(grid, width, height)
       [] name = "step" ->
            /\ last' = "step"
            /\ UNCHANGED <<width, height, pc, depth, disabled>>
            /\ \E r \in step(grid) : grid' = r.grid /\ thrown' = r.thrown
       [] name = "reset" ->
            /\ last' = "reset"
            /\ thrown' = "none"
            /\ UNCHANGED <<width, height, pc, depth, disabled>>
            /\ grid' = reset(grid, width, height)

\* handleBtnClick(event), the click of an enabled drag-box button.  The
\* generate button resets a grid that cannot step and calls
\* generate(inputs, 1): the call is GenerateCall at depth 1, which runs
\* before the host has control again.
HandleBtnClick(name) ==
  /\ HostTurn
  /\ ~disabled
  /\ CASE name = "generate" ->
            /\ pc' = "run"
            /\ depth' = 1
            /\ thrown' = "none"
            /\ UNCHANGED <<width, height, disabled>>
            /\ last' = IF ~canStep(grid) THEN "reset" ELSE "generate"
            /\ grid' = IF ~canStep(grid) THEN reset(grid, width, height) ELSE grid
       [] name = "step" ->
            /\ last' = "step"
            /\ UNCHANGED <<width, height, pc, depth, disabled>>
            /\ \E r \in step(grid) : grid' = r.grid /\ thrown' = r.thrown
       [] name = "reset" ->
            /\ last' = "reset"
            /\ thrown' = "none"
            /\ UNCHANGED <<width, height, pc, depth, disabled>>
            /\ grid' = reset(grid, width, height)

\* A faulty generate() that awaits sleep(1) at depth 0 and then returns
\* without the next call.
GenerateCallNoResume ==
  /\ pc = "run"
  /\ \E r \in step(grid) :
       /\ grid' = r.grid
       /\ thrown' = r.thrown
       /\ IF r.thrown # "none" THEN pc' = "idle" /\ depth' = 0 /\ disabled' = TRUE
          ELSE IF canStep(r.grid) /\ depth # 0
               THEN pc' = "run" /\ depth' = (depth + 1) % 5 /\ disabled' = TRUE
               ELSE pc' = "idle" /\ depth' = 0 /\ disabled' = ~canStep(r.grid)
  /\ last' = "step"
  /\ UNCHANGED <<width, height>>

\* One call generate(inputs, depth), up to its await or its return: the
\* inputs are disabled, one step runs, and the call either goes on to the
\* next call (awaiting sleep(1) first when depth is 0) or enables the inputs.
\* A step that raises rejects the call's promise and leaves the inputs
\* disabled.
GenerateCall ==
  /\ pc = "run"
  /\ \E r \in step(grid) :
       /\ grid' = r.grid
       /\ thrown' = r.thrown
       /\ IF r.thrown # "none" THEN pc' = "idle" /\ depth' = 0 /\ disabled' = TRUE
          ELSE IF canStep(r.grid)
               THEN /\ disabled' = TRUE
                    /\ pc' = IF depth = 0 THEN "sleep" ELSE "run"
                    /\ depth' = (depth + 1) % 5
               ELSE pc' = "idle" /\ depth' = 0 /\ disabled' = FALSE
  /\ last' = "step"
  /\ UNCHANGED <<width, height>>

\* sleep(1) resolves: the awaiting call goes on to
\* this.generate(inputs, (depth + 1) % 5), the next GenerateCall
Wake ==
  /\ pc = "sleep"
  /\ pc' = "run"
  /\ UNCHANGED <<grid, width, height, depth, disabled, thrown, last>>

Next ==
  \/ \E val \in JsValues : SetWidth(val)
  \/ \E val \in JsValues : SetHeight(val)
  \/ \E name \in {"width", "height"}, v \in FiniteValues : HandleInput(name, v)
  \/ \E name \in {"generate", "step", "reset"} : HandleBtnClick(name)
  \/ GenerateCall
  \/ Wake

Spec == Init /\ [][Next]_vars

\* The runs nothing disturbs: from every grid new Grid(w, h) makes, the host
\* clicks the buttons that are enabled (none is while a run is in flight),
\* and sets neither width nor height.
NextRun ==
  \/ \E name \in {"generate", "step", "reset"} : HandleBtnClick(name)
  \/ GenerateCall
  \/ Wake

\* a generate() call was made: under NextRun nothing but GenerateCall leaves
\* a state with pc = "run"
RunCallTaken == pc = "run" /\ last' = "step"

\* Weak fairness of GenerateCall (JavaScript runs the synchronous chain of
\* generate() calls to its await or its return), with
\* ENABLED <<GenerateCall>>_vars written out as pc = "run": step() has an
\* outcome on every grid, and the call changes grid or pc.
FairGenerateCall == []<>(pc # "run") \/ []<><<RunCallTaken>>_vars

\* the timer of sleep(1) fires: weak fairness of Wake
SpecRun == Init /\ [][NextRun]_vars /\ FairGenerateCall /\ WF_vars(Wake)

\* The grids steps reach: from every grid new Grid(w, h) makes, the step
\* and reset buttons.
NextStep == \E name \in {"step", "reset"} : HandleBtnClick(name)

SpecStep == Init /\ [][NextStep]_vars

\* Everything the host can do, with the scheduling of SpecRun: the chain of
\* generate() calls runs to its await or its return, and the timer fires.
SpecHost == Init /\ [][Next]_vars /\ FairGenerateCall /\ WF_vars(Wake)

\* The step button alone, from every grid new Grid(w, h) makes: every grid
\* a sequence of steps leaves.
NextCollapse == HandleBtnClick("step")

SpecCollapse == Init /\ [][NextCollapse]_vars

\* ------------------------------------------------------------ vocabulary
\* the compatibility set of a state
CompatibilitySet(state) == Range(Constraints(state).states)

\* the catalog
Catalog == Range(all_list)

\* the in-range positions of a width x height grid
InRange(w, h) == (0..(w.n - 1)) \X (0..(h.n - 1))

\* the positions the matrix holds
Positions(g) == UNION {{<<x, y>> : y \in DOMAIN g[x]} : x \in DOMAIN g}

IsCell(c) == c.kind = "Square"
IsCollapsedCell(c) == c.kind = "CollapedSquare"

\* a fresh Cell: uncollapsed, its candidates the full catalog, no duplicates
IsFreshCell(c) == IsCell(c) /\ Range(c.states) = Catalog /\ Len(c.states) = Cardinality(Catalog)

Uncollapsed(g) == {p \in Positions(g) : IsCell(g[p[1]][p[2]])}
Collapsed(g) == {p \in Positions(g) : IsCollapsedCell(g[p[1]][p[2]])}

Terminal(g) == Uncollapsed(g) = {}

Orthogonal(p, q) ==
  \/ p[1] = q[1] /\ (p[2] = q[2] + 1 \/ q[2] = p[2] + 1)
  \/ p[2] = q[2] /\ (p[1] = q[1] + 1 \/ q[1] = p[1] + 1)

\* sum of the candidate-set sizes over the uncollapsed Cells
RECURSIVE SumEntropy(_, _)
SumEntropy(g, ps) ==
  IF ps = {} THEN 0
  ELSE LET p == CHOOSE q \in ps : TRUE
       IN Cardinality(Range(g[p[1]][p[2]].states)) + SumEntropy(g, ps \ {p})

TotalEntropy(g) == SumEntropy(g, Uncollapsed(g))

Constructed == pc # "failed"

\* ----------------------------------------------------------- properties
AllFresh(g) == \A p \in Positions(g) : IsFreshCell(g[p[1]][p[2]])

\* a transition in which op was called: every action but Wake records the
\* operation it calls in last, and Wake calls none
Called(op) == last' = op /\ ~Wake

\* C1: in every reachable state, two orthogonally adjacent CollapsedCells
\* hold states a and b with b in the compatibility set of a and a in the
\* compatibility set of b.
AdjacentCollapsedCompatible ==
  \A p \in Collapsed(grid) : \A q \in Collapsed(grid) :
    Orthogonal(p, q) =>
      LET a == grid[p[1]][p[2]].state
          b == grid[q[1]][q[2]].state
      IN b \in CompatibilitySet(a) /\ a \in CompatibilitySet(b)

\* a finished map of at least four cells in which two adjacent cells differ
FinishedMapWithBorder ==
  /\ last = "step"
  /\ Terminal(grid)
  /\ Cardinality(Collapsed(grid)) >= 4
  /\ \E p \in Collapsed(grid) : \E q \in Collapsed(grid) :
       Orthogonal(p, q) /\ grid[p[1]][p[2]].state # grid[q[1]][q[2]].state

\* one generate() call of a run collapses exactly one Cell, uncollapses none,
\* and the run goes on exactly when an uncollapsed Cell is left
RunCallCollapsesOne ==
  /\ \E p \in Uncollapsed(grid) :
       /\ Collapsed(grid') = Collapsed(grid) \cup {p}
       /\ Uncollapsed(grid') = Uncollapsed(grid) \ {p}
  /\ pc' \in {"run", "sleep"} <=> canStep(grid')
  /\ pc' = "idle" <=> Terminal(grid')

\* C2: a run started on a grid with an uncollapsed Cell keeps calling step
\* until canStep() is false and reaches the Terminal state, every position
\* holding a CollapsedCell; it performs exactly as many collapses as there
\* were uncollapsed Cells at its start: each call collapses exactly one
\* Cell, nothing but the calls changes the grid during the run, and the run
\* ends exactly when no uncollapsed Cell is left.
RunReachesTerminal ==
  /\ [][(pc = "run" /\ canStep(grid)) => RunCallCollapsesOne]_vars
  /\ [][pc = "sleep" => (grid' = grid /\ pc' = "run")]_vars
  /\ (pc = "run" /\ canStep(grid)) ~> (pc = "idle" /\ Terminal(grid) /\ thrown = "none")

\* a run went through its await: five calls made, one Cell left to collapse
RunPastAwait ==
  /\ pc = "run"
  /\ disabled
  /\ depth = 1
  /\ Cardinality(Collapsed(grid)) = 5
  /\ Cardinality(Uncollapsed(grid)) = 1

\* the four directions, in the order step() and #setFilters explore them
Directions == <<[x |-> 1, y |-> 0], [x |-> 0 - 1, y |-> 0], [x |-> 0, y |-> 1], [x |-> 0, y |-> 0 - 1]>>

\* the 24 orders in which the four directions can be explored
DirectionOrders ==
  {[i \in 1..4 |-> Directions[p[i]]] : p \in {q \in [1..4 -> 1..4] : \A i, j \in 1..4 : q[i] = q[j] => i = j}}

\* #setFilters with its four recursive calls made in the order dirs
RECURSIVE setFiltersIn(_, _, _, _, _, _)
setFiltersIn(dirs, g, x, y, filter, completed) ==
  IF FilterHasAll(filter) THEN <<>>
  ELSE LET square == GridGet(g, x, y) IN
    IF square.kind # "Square" THEN <<>>
    ELSE IF SeqIncludes(completed, square.pos) THEN <<>>
    ELSE IF FilterEquals(square.states, filter) THEN <<>>
    ELSE LET completed2 == Append(completed, square.pos)
             states == FilterFilter(filter, square.states)
             posString == JSONstringify(square.pos)
             newFilter == filter_union(filterSet(states))
         IN <<[key |-> posString, value |-> states]>>
              \o setFiltersIn(dirs, g, x + dirs[1].x, y + dirs[1].y, newFilter, completed2)
              \o setFiltersIn(dirs, g, x + dirs[2].x, y + dirs[2].y, newFilter, completed2)
              \o setFiltersIn(dirs, g, x + dirs[3].x, y + dirs[3].y, newFilter, completed2)
              \o setFiltersIn(dirs, g, x + dirs[4].x, y + dirs[4].y, newFilter, completed2)

\* filterList of step() with the directions explored in the order dirs, at
\* the top and in every recursive call
stepFilterListIn(dirs, g, randPos, filter) ==
  PushAll(<<>>,
          setFiltersIn(dirs, g, randPos.x + dirs[1].x, randPos.y + dirs[1].y, filter, <<>>)
          \o setFiltersIn(dirs, g, randPos.x + dirs[2].x, randPos.y + dirs[2].y, filter, <<>>)
          \o setFiltersIn(dirs, g, randPos.x + dirs[3].x, randPos.y + dirs[3].y, filter, <<>>)
          \o setFiltersIn(dirs, g, randPos.x + dirs[4].x, randPos.y + dirs[4].y, filter, <<>>),
          1)

\* the propagation of step() with the directions explored in the order dirs
propagateIn(dirs, g, collapsedSquare) ==
  LET filter == Constraints(getName(collapsedSquare.state)).states
  IN propagateFilter(g, stepFilterListIn(dirs, g, collapsedSquare.pos, filter))

\* the grid as step() has it when propagation starts: the CollapedSquare of
\* draw d stored
Stored(g, d) == GridSet(g, d.randPos.x, d.randPos.y, d.collapsedSquare)

\* C5: the grid after one propagation does not depend on the traversal
\* order: for every step the engine can take, exploring the four directions
\* in any of the 24 orders (which also permutes the filters recorded for a
\* position) leaves the same grid as the order of the code.
TraversalOrderIrrelevant ==
  \A d \in stepDraws(grid) :
    \A dirs \in DirectionOrders :
      propagateIn(dirs, Stored(grid, d), d.collapsedSquare)
        = propagate(Stored(grid, d), d.collapsedSquare)

\* a step whose propagation records two different filters for one position,
\* with an order of the directions that records them the other way round
TwoPathsToOneCell ==
  last = "step" /\ \E d \in stepDraws(grid) :
    LET filter == Constraints(getName(d.collapsedSquare.state)).states
        filterList == stepFilterList(Stored(grid, d), d.randPos, filter)
    IN \E e \in Range(filterList) :
         /\ Len(e.value) >= 2
         /\ e.value[1] # e.value[2]
         /\ \E dirs \in DirectionOrders :
              LET other == ObjGet(stepFilterListIn(dirs, Stored(grid, d), d.randPos, filter), e.key)
              IN other[1] = e.value[2] /\ other[1] # e.value[1]

\* C6: propagation is idempotent: for every step the engine can take,
\* running the propagation from the cell it collapsed a second time, on the
\* grid the step left, changes no cell.
PropagationIdempotent ==
  \A d \in stepDraws(grid) :
    LET after == propagate(Stored(grid, d), d.collapsedSquare)
    IN propagate(after, d.collapsedSquare) = after

\* a step whose propagation narrowed a cell that is no neighbour of the
\* collapsed one
PropagationReachedFar ==
  last = "step" /\ \E d \in stepDraws(grid) :
    LET after == propagate(Stored(grid, d), d.collapsedSquare)
    IN \E p \in Uncollapsed(after) :
         /\ ~Orthogonal(p, <<d.randPos.x, d.randPos.y>>)
         /\ after[p[1]][p[2]].states # grid[p[1]][p[2]].states

\* C3: a step never raises the total entropy, and a step taken while
\* canStep() is true lowers it by at least 1.  The steps are those of the
\* generate() calls and of the step button.
StepLowersEntropy ==
  [][Called("step") =>
       /\ TotalEntropy(grid') <= TotalEntropy(grid)
       /\ canStep(grid) => TotalEntropy(grid') <= TotalEntropy(grid) - 1]_vars

\* one step was taken on a fresh grid: one cell is collapsed and its
\* neighbours lost candidates
OneStepNarrowed ==
  /\ last = "step"
  /\ thrown = "none"
  /\ Cardinality(Collapsed(grid)) = 1
  /\ Cardinality(Uncollapsed(grid)) >= 3
  /\ TotalEntropy(grid) < Cardinality(Catalog) * Cardinality(Uncollapsed(grid))

\* C4: canStep() is false if and only if every position of the width x height
\* grid holds a CollapsedCell.
CanStepIffUncollapsed ==
  Constructed =>
    (~canStep(grid) <=>
       \A p \in InRange(width, height) : IsCollapsedCell(GridGet(grid, p[1], p[2])))

\* canStep() is true with a single uncollapsed Cell left among at least four
LastCellLeft ==
  /\ Constructed
  /\ canStep(grid)
  /\ Cardinality(Uncollapsed(grid)) = 1
  /\ Cardinality(Collapsed(grid)) >= 3

\* C7: after a set of width or height that succeeds, from any grid state,
\* every in-range position holds an uncollapsed Cell whose candidates are the
\* full catalog.
ResizeLeavesFreshCells ==
  [][((Called("width") \/ Called("height")) /\ thrown' = "none") =>
       \A p \in InRange(width', height') : IsFreshCell(GridGet(grid', p[1], p[2]))]_vars

\* a resize at the await of a run, which had collapsed cells by then, left
\* a grid of fresh Cells
ResizedDuringRun ==
  /\ pc = "sleep"
  /\ last \in {"width", "height"}
  /\ thrown = "none"
  /\ Cardinality(Positions(grid)) >= 4
  /\ AllFresh(grid)

\* C8: reset(), called by the reset button or by the generate button on a
\* grid that cannot step, leaves width and height unchanged and produces the
\* grid that new Grid(width, height) produces, every position holding a
\* fresh Cell.
ResetEqualsInitialization ==
  [][Called("reset") =>
       /\ width' = width
       /\ height' = height
       /\ grid' = GridConstructor(width, height).grid
       /\ Positions(grid') = InRange(width, height)
       /\ AllFresh(grid')]_vars

\* the generate button reset a finished map of at least four cells
ResetOfFinishedMap ==
  /\ pc = "run"
  /\ depth = 1
  /\ last = "reset"
  /\ ~disabled
  /\ Cardinality(Positions(grid)) >= 4
  /\ AllFresh(grid)

\* C9: in every reachable state of a constructed Grid, width and height are
\* positive integers and the matrix holds exactly width x height positions,
\* each holding one Cell or CollapsedCell.
DimensionsPositive ==
  Constructed =>
    /\ NumberIsInteger(width) /\ width.n > 0
    /\ NumberIsInteger(height) /\ height.n > 0
    /\ Positions(grid) = InRange(width, height)
    /\ \A p \in Positions(grid) :
         IsCell(grid[p[1]][p[2]]) \/ IsCollapsedCell(grid[p[1]][p[2]])

InvalidWidth(val) == ~(NumberIsInteger(val) /\ val.n > 0)
InvalidHeight(val) == ~NumberIsInteger(val)

\* C10: a set of width to a value that is not a positive integer, or of
\* height to a value that is not an integer, raises ScalingError and resizes
\* nothing; so does new Grid(w, h) for such a w or h.
InvalidValuesRaiseScalingError ==
  /\ \A val \in JsValues :
       InvalidWidth(val) =>
         SetWidthResult(width, height, grid, val) =
           [thrown |-> "ScalingError", width |-> width, height |-> height, grid |-> grid]
  /\ \A val \in JsValues :
       InvalidHeight(val) =>
         SetHeightResult(width, height, grid, val) =
           [thrown |-> "ScalingError", width |-> width, height |-> height, grid |-> grid]
  /\ \A w \in JsValues, h \in JsValues :
       (InvalidWidth(w) \/ InvalidHeight(h)) =>
         GridConstructor(w, h).thrown = "ScalingError"

\* the coordinates get is asked for: every position of the largest grid and
\* two more on every side
Probes == ((0 - 2)..(MaxWidth + 1)) \X ((0 - 2)..(MaxHeight + 1))

\* the Cell or CollapsedCell stored at an in-range position, the absent marker
\* elsewhere
StoredAt(x, y) == IF <<x, y>> \in InRange(width, height) THEN grid[x][y] ELSE UndefinedCell

\* C11: on a constructed Grid get(x, y) never raises: it returns the
\* stored Cell or CollapsedCell for in-range coordinates and the absent
\* marker for out-of-range ones,
\* negative ones included; getNeighbours(x, y) returns the four results in
\* the order +x, -x, +y, -y.
GetNeverRaises ==
  Constructed => \A c \in Probes :
    LET x == c[1]
        y == c[2]
        got == GridGetCall(grid, x, y)
    IN /\ got.thrown = "none"
       /\ got.value = StoredAt(x, y)
       /\ GridGet(grid, x, y) = got.value
       /\ <<x, y>> \in InRange(width, height) => (IsCell(got.value) \/ IsCollapsedCell(got.value))
       /\ <<x, y>> \notin InRange(width, height) => got.value = UndefinedCell
       /\ getNeighbours(grid, x, y) =
            <<StoredAt(x + 1, y), StoredAt(x - 1, y), StoredAt(x, y + 1), StoredAt(x, y - 1)>>

\* the corner (0, 0) holds a CollapsedCell; its -x and -y neighbours are
\* absent, its +x and +y neighbours are Cells
NeighboursOfCollapsedCorner ==
  /\ last = "step"
  /\ IsCollapsedCell(GridGetCall(grid, 0, 0).value)
  /\ LET n == getNeighbours(grid, 0, 0)
     IN IsCell(n[1]) /\ n[2] = UndefinedCell /\ IsCell(n[3]) /\ n[4] = UndefinedCell

\* a grid of two orthogonally adjacent fresh Cells: 2x1 or 1x2
TwoFreshCells == Cardinality(Positions(grid)) = 2 /\ AllFresh(grid)

\* C12: on a grid of two orthogonally adjacent fresh Cells, a step that
\* collapses one Cell to state S leaves the other Cell's candidates exactly
\* the compatibility set of S, each once; and the step can collapse either
\* Cell to every catalog state S.
TwoCellStepPrunesExactly ==
  TwoFreshCells =>
    /\ \A r \in step(grid) :
         /\ r.thrown = "none"
         /\ \E p \in Collapsed(r.grid) : \E q \in Uncollapsed(r.grid) :
              /\ Orthogonal(p, q)
              /\ Range(r.grid[q[1]][q[2]].states) = CompatibilitySet(r.grid[p[1]][p[2]].state)
              /\ Len(r.grid[q[1]][q[2]].states) = Cardinality(CompatibilitySet(r.grid[p[1]][p[2]].state))
    /\ \A S \in Catalog : \A p \in Positions(grid) :
         \E r \in step(grid) : IsCollapsedCell(r.grid[p[1]][p[2]]) /\ r.grid[p[1]][p[2]].state = S

\* the step was taken on a 2x1 grid: the left Cell is water, the right one
\* is left with deep, water and beach
WaterPrunedNeighbour ==
  /\ last = "step"
  /\ Positions(grid) = {<<0, 0>>, <<1, 0>>}
  /\ IsCollapsedCell(grid[0][0]) /\ grid[0][0].state = "water"
  /\ IsCell(grid[1][0]) /\ grid[1][0].states = <<"deep", "water", "beach">>

\* a corner of the width x height grid
Corner(pos) == pos.x \in {0, width.n - 1} /\ pos.y \in {0, height.n - 1}

\* the positions whose cell differs between the matrices g and h
Changed(g, h) == {p \in Positions(g) : g[p[1]][p[2]] # h[p[1]][p[2]]}

\* the in-range orthogonal neighbours of pos
InRangeNeighbours(pos) == {p \in InRange(width, height) : Orthogonal(p, <<pos.x, pos.y>>)}

\* the steps that collapse a corner of a grid with width > 1 and height > 1
CornerDraws ==
  IF Constructed /\ width.n > 1 /\ height.n > 1
  THEN {d \in stepDraws(grid) : Corner(d.randPos)}
  ELSE {}

\* C13 as stated: collapsing a corner cell of an N x M grid (N, M > 1)
\* changes the candidates of its in-range orthogonal neighbours only, and
\* the exploration toward the two out-of-range neighbours is a no-op that
\* raises nothing.
CornerChangesNeighboursOnly ==
  \A d \in CornerDraws :
    LET r == stepResult(grid, d.randPos, d.collapsedSquare)
    IN /\ r.thrown = "none"
       /\ Changed(Stored(grid, d), r.grid) \subseteq InRangeNeighbours(d.randPos)

\* C13, amended: collapsing a corner cell of an N x M grid (N, M > 1)
\* raises nothing; exactly two of its neighbours are in range; get returns
\* the absent marker for the other two without raising and the exploration
\* toward them records no filter; the in-range neighbours are left with
\* candidates inside the compatibility set of the collapsed state; every
\* cell that changes is an in-range uncollapsed Cell that only loses
\* candidates - it need not be a neighbour of the corner, since the
\* exploration goes on from the neighbours.
CornerExploresInRangeOnly ==
  \A d \in CornerDraws :
    LET r == stepResult(grid, d.randPos, d.collapsedSquare)
        stored == Stored(grid, d)
        filter == Constraints(getName(d.collapsedSquare.state)).states
    IN /\ r.thrown = "none"
       /\ Cardinality(InRangeNeighbours(d.randPos)) = 2
       /\ \A i \in 1..4 :
            LET x == d.randPos.x + Directions[i].x
                y == d.randPos.y + Directions[i].y
            IN <<x, y>> \notin InRange(width, height) =>
                 /\ GridGetCall(stored, x, y) = [thrown |-> "none", value |-> UndefinedCell]
                 /\ setFilters(stored, x, y, filter, <<>>) = <<>>
       /\ \A p \in InRangeNeighbours(d.randPos) :
            IsCell(r.grid[p[1]][p[2]]) =>
              Range(r.grid[p[1]][p[2]].states) \subseteq CompatibilitySet(d.collapsedSquare.state)
       /\ \A p \in Changed(stored, r.grid) :
            /\ p \in InRange(width, height)
            /\ IsCell(stored[p[1]][p[2]]) /\ IsCell(r.grid[p[1]][p[2]])
            /\ Range(r.grid[p[1]][p[2]].states) \subseteq Range(stored[p[1]][p[2]].states)

\* a corner of a grid with width > 1 and height > 1 can be collapsed by a
\* step that narrows a Cell which is no neighbour of the corner
CornerStepReachesFar ==
  \E d \in CornerDraws :
    Changed(Stored(grid, d), stepResult(grid, d.randPos, d.collapsedSquare).grid)
      \ InRangeNeighbours(d.randPos) # {}

\* the bias weights handed to collapse: none, those of one collapsed
\* neighbour in any catalog state, and those of two such neighbours summed,
\* in the same state or in two states that follow each other in the catalog
BiasWeights ==
  {<<>>}
  \cup {weightObj(CollapedSquare(0, 0, a)) : a \in Catalog}
  \cup {ReduceWeights(<<weightObj(CollapedSquare(0, 0, all_list[p[1]])),
                        weightObj(CollapedSquare(0, 0, all_list[p[2]]))>>, 1, <<>>) :
          p \in {q \in (DOMAIN all_list) \X (DOMAIN all_list) : q[2] = q[1] \/ q[2] = q[1] + 1}}

\* C14: collapse on a Cell with at least one candidate returns a
\* CollapsedCell at the Cell's position whose state is one of its
\* candidates, and every candidate is an outcome, whatever bias weights are
\* supplied: every effective weight is 1 + bias; one step on a fresh 1x1
\* grid can collapse the Cell to every catalog state, and canStep() is false
\* afterwards.
CollapseDrawsAnyCandidate ==
  /\ \A p \in Uncollapsed(grid) :
       LET square == grid[p[1]][p[2]]
       IN entropy(square) >= 1 =>
            \A bias \in BiasWeights \cup {weights(grid, p[1], p[2])} :
              /\ collapse(square, bias) =
                   {CollapedSquare(p[1], p[2], state) : state \in Range(square.states)}
              /\ \A e \in Range(filteredWeights(square, bias)) :
                   e.value = 1 + (IF HasOwn(bias, e.key) THEN ObjGet(bias, e.key) ELSE 0)
  /\ (Positions(grid) = {<<0, 0>>} /\ IsCell(grid[0][0])) =>
       /\ \A r \in step(grid) : r.thrown = "none" /\ ~canStep(r.grid)
       /\ {r.grid[0][0] : r \in step(grid)} = {CollapedSquare(0, 0, state) : state \in Catalog}

\* one step on the 1x1 grid collapsed its Cell to snow, the last state of the
\* catalog; canStep() is false
SoleCellCollapsedToSnow ==
  /\ last = "step"
  /\ Positions(grid) = {<<0, 0>>}
  /\ grid[0][0] = CollapedSquare(0, 0, "snow")
  /\ ~canStep(grid)

\* ---------------------------------------------------------------------
\* The Filter of a position: the candidates of its Cell (the Filter
\* #setFilters compares with, new Filter(square.states)), or the
\* compatibility array of its CollapsedCell's state (the seed filter of step)
FilterAt(p) ==
  LET square == grid[p[1]][p[2]]
  IN IF IsCell(square) THEN square.states ELSE Constraints(getName(square.state)).states

GridFilters == {FilterAt(p) : p \in Positions(grid)}

\* the lists of one to three of these Filters
FilterLists ==
  {<<a>> : a \in GridFilters}
  \cup {<<a, b>> : a \in GridFilters, b \in GridFilters}
  \cup {<<a, b, c>> : a \in GridFilters, b \in GridFilters, c \in GridFilters}

\* C15: Filter.combine over a non-empty list yields exactly the states that
\* are members of every filter of the list, so by Filter.equals the result
\* is the same for every order and grouping of the inputs, combine([F])
\* equals F and combine([F, F]) equals F; Filter.filter_union yields exactly
\* the states that are members of at least one input array.  The inputs are
\* the Filters of the positions of every grid steps reach.
CombineIsIntersection ==
  Constructed =>
    /\ \A L \in FilterLists :
         /\ Range(combine(L)) = {c \in Catalog : \A i \in DOMAIN L : FilterIncludes(L[i], c)}
         /\ Range(filter_union(L)) = {c \in Catalog : \E i \in DOMAIN L : FilterIncludes(L[i], c)}
    /\ Range(filter_union(<<>>)) = {}
    /\ \A a \in GridFilters :
         /\ FilterEquals(combine(<<a>>), a) /\ FilterEquals(a, combine(<<a>>))
         /\ FilterEquals(combine(<<a, a>>), a) /\ FilterEquals(a, combine(<<a, a>>))
         /\ \A b \in GridFilters :
              /\ FilterEquals(combine(<<a, b>>), combine(<<b, a>>))
              /\ \A c \in GridFilters :
                   LET abc == combine(<<a, b, c>>)
                   IN /\ FilterEquals(combine(<<combine(<<a, b>>), c>>), abc)
                      /\ FilterEquals(combine(<<a, combine(<<b, c>>)>>), abc)
                      /\ FilterEquals(abc, combine(<<c, b, a>>))

\* after a step two positions hold Filters whose intersection is smaller
\* than either and comes out as a different array in the other order
IntersectionOrderDiffers ==
  /\ last = "step"
  /\ \E a \in GridFilters, b \in GridFilters :
       /\ combine(<<a, b>>) # combine(<<b, a>>)
       /\ Len(combine(<<a, b>>)) < Len(a)
       /\ Len(combine(<<a, b>>)) < Len(b)
       /\ Len(combine(<<a, b>>)) > 1

\* ---------------------------------------------------------------------
\* the minimum entropy over the uncollapsed Cells of g
MinEntropy(g) ==
  CHOOSE m \in {entropy(g[p[1]][p[2]]) : p \in Uncollapsed(g)} :
    \A q \in Uncollapsed(g) : m <= entropy(g[q[1]][q[2]])

\* the Cells tied at the minimum
Tied(g) == {p \in Uncollapsed(g) : entropy(g[p[1]][p[2]]) = MinEntropy(g)}

\* the positions that hold a Cell in g and a CollapsedCell in h
NewlyCollapsed(g, h) == {p \in Uncollapsed(g) : IsCollapsedCell(h[p[1]][p[2]])}

\* C16: in every state steps reach in which canStep() is true,
\* every outcome of step() turns exactly one position from Cell into
\* CollapsedCell, that Cell's entropy before the step is the
\* minimum over the uncollapsed Cells, and for every Cell tied at the
\* minimum some outcome collapses it.
StepCollapsesOneOfLowestEntropy ==
  (Constructed /\ canStep(grid)) =>
    /\ \A r \in step(grid) :
         /\ r.thrown = "none"
         /\ Cardinality(NewlyCollapsed(grid, r.grid)) = 1
         /\ NewlyCollapsed(grid, r.grid) \subseteq Tied(grid)
         /\ Collapsed(r.grid) = Collapsed(grid) \cup NewlyCollapsed(grid, r.grid)
    /\ \A p \in Tied(grid) : \E r \in step(grid) : NewlyCollapsed(grid, r.grid) = {p}
    /\ Range([i \in DOMAIN lowestEntropySet(grid) |->
               <<lowestEntropySet(grid)[i].x, lowestEntropySet(grid)[i].y>>]) = Tied(grid)

\* the first step on a fresh grid of several cells chose a Cell other than
\* the first one scanned, and the next step has a tie again below entropy 7
LaterScannedCellChosen ==
  /\ last = "step"
  /\ \E p \in Positions(grid) : p # <<0, 0>> /\ Collapsed(grid) = {p}
  /\ Cardinality(Tied(grid)) >= 2
  /\ MinEntropy(grid) < allConstraintsLength
  /\ Tied(grid) # Uncollapsed(grid)

\* ---------------------------------------------------------------------
\* the CollapsedCells orthogonally adjacent to p
CollapsedNeighbours(p) == {q \in Collapsed(grid) : Orthogonal(p, q)}

\* C17: in every state reachable by step, run, reset and resize, every
\* uncollapsed Cell has, for each of its orthogonally adjacent CollapsedCells
\* in state S, a candidate set that is a subset of the compatibility set of
\* S: for all collapsed neighbours at once.
CandidatesWithinNeighbourRules ==
  \A p \in Uncollapsed(grid) : \A q \in CollapsedNeighbours(p) :
    Range(grid[p[1]][p[2]].states) \subseteq CompatibilitySet(grid[q[1]][q[2]].state)

\* after a step a Cell lies between two CollapsedCells in different states,
\* and its candidates are fewer than either compatibility set alone allows
CellBetweenTwoCollapsed ==
  /\ last = "step"
  /\ \E p \in Uncollapsed(grid) : \E q1 \in CollapsedNeighbours(p), q2 \in CollapsedNeighbours(p) :
       LET candidates == Range(grid[p[1]][p[2]].states)
           s1 == grid[q1[1]][q1[2]].state
           s2 == grid[q2[1]][q2[2]].state
       IN /\ s1 # s2
          /\ candidates # {}
          /\ candidates # CompatibilitySet(s1)
          /\ candidates # CompatibilitySet(s2)
          /\ candidates \subseteq CompatibilitySet(s1) \cap CompatibilitySet(s2)

\* ---------------------------------------------------------------------
\* C18: with the shipped compatibility rules no contradiction is reachable:
\* in every state reachable from a freshly constructed grid by step, run,
\* reset and resize, every uncollapsed Cell has entropy at least 1 and
\* candidates of the catalog, every CollapsedCell holds a catalog state,
\* and no call has raised the TypeError that a draw from an empty
\* candidate set leads to.
NoContradiction ==
  /\ \A p \in Uncollapsed(grid) :
       /\ entropy(grid[p[1]][p[2]]) >= 1
       /\ Range(grid[p[1]][p[2]].states) \subseteq Catalog
  /\ \A p \in Collapsed(grid) : grid[p[1]][p[2]].state \in Catalog
  /\ thrown # "TypeError"

\* after a step a Cell is down to its last candidate, between two
\* CollapsedCells in different states
CellDownToOneCandidate ==
  /\ last = "step"
  /\ \E p \in Uncollapsed(grid) :
       /\ entropy(grid[p[1]][p[2]]) = 1
       /\ \E q1 \in CollapsedNeighbours(p), q2 \in CollapsedNeighbours(p) :
            grid[q1[1]][q1[2]].state # grid[q2[1]][q2[2]].state

\* ---------------------------------------------------------------------
\* A faulty exploration whose guard looks at the length of the path only,
\* never at the squares on it.
RECURSIVE setFiltersPathsByDepth(_, _, _, _, _)
setFiltersPathsByDepth(g, x, y, filter, completed) ==
  IF FilterHasAll(filter) THEN <<>>
  ELSE LET square == GridGet(g, x, y) IN
    IF square.kind # "Square" THEN <<>>
    ELSE IF Len(completed) >= Cardinality(Positions(g)) THEN <<>>
    ELSE IF FilterEquals(square.states, filter) THEN <<>>
    ELSE LET completed2 == Append(completed, square.pos)
             states == FilterFilter(filter, square.states)
             newFilter == filter_union(filterSet(states))
         IN <<[path |-> completed2, filter |-> filter, states |-> states]>>
            \o setFiltersPathsByDepth(g, x + 1, y, newFilter, completed2)
            \o setFiltersPathsByDepth(g, x - 1, y, newFilter, completed2)
            \o setFiltersPathsByDepth(g, x, y + 1, newFilter, completed2)
            \o setFiltersPathsByDepth(g, x, y - 1, newFilter, completed2)

\* #setFilters with every call that records a filter written down: the
\* inbound filter, the states it records and completed after the push, that
\* is the exploration path that led to the square, in the order of the calls
RECURSIVE setFiltersPaths(_, _, _, _, _)
setFiltersPaths(g, x, y, filter, completed) ==
  IF FilterHasAll(filter) THEN <<>>
  ELSE LET square == GridGet(g, x, y) IN
    IF square.kind # "Square" THEN <<>>
    ELSE IF SeqIncludes(completed, square.pos) THEN <<>>
    ELSE IF FilterEquals(square.states, filter) THEN <<>>
    ELSE LET completed2 == Append(completed, square.pos)
             states == FilterFilter(filter, square.states)
             newFilter == filter_union(filterSet(states))
         IN <<[path |-> completed2, filter |-> filter, states |-> states]>>
            \o setFiltersPaths(g, x + 1, y, newFilter, completed2)
            \o setFiltersPaths(g, x - 1, y, newFilter, completed2)
            \o setFiltersPaths(g, x, y + 1, newFilter, completed2)
            \o setFiltersPaths(g, x, y - 1, newFilter, completed2)

\* the recording calls of one propagation: the four calls of step() around
\* randPos
stepPaths(g, randPos, filter) ==
  setFiltersPaths(g, randPos.x + 1, randPos.y, filter, <<>>)
  \o setFiltersPaths(g, randPos.x - 1, randPos.y, filter, <<>>)
  \o setFiltersPaths(g, randPos.x, randPos.y + 1, filter, <<>>)
  \o setFiltersPaths(g, randPos.x, randPos.y - 1, filter, <<>>)

\* the [key, filter] pairs the recording calls push
PathPushes(paths) ==
  [i \in DOMAIN paths |->
     [key |-> JSONstringify(paths[i].path[Len(paths[i].path)]), value |-> paths[i].states]]

\* #setFilters explores on from a call at pos with filter on path completed
\* exactly when none of its four returns is taken
Explores(g, pos, filter, completed) ==
  /\ ~FilterHasAll(filter)
  /\ <<pos.x, pos.y>> \in Uncollapsed(g)
  /\ ~SeqIncludes(completed, pos)
  /\ ~FilterEquals(g[pos.x][pos.y].states, filter)

Toward(pos, dir) == [x |-> pos.x + dir.x, y |-> pos.y + dir.y]

\* C19: one propagation terminates: for every step the engine can take, the
\* calls of #setFilters that record a filter are finitely many, each on an
\* exploration path that enters no Cell twice, runs from neighbour to
\* neighbour over uncollapsed in-range Cells only and is never longer than
\* the number of uncollapsed Cells; a call explores on exactly when the
\* position is in range, holds a Cell that is not yet on the path, the
\* inbound filter is not full and differs from the Cell's candidates; and
\* the filters recorded are those of every such path, one per path.
PropagationPathsNeverLoop ==
  \A d \in stepDraws(grid) :
    LET g == Stored(grid, d)
        seed == Constraints(getName(d.collapsedSquare.state)).states
        paths == stepPaths(g, d.randPos, seed)
    IN /\ PushAll(<<>>, PathPushes(paths), 1) = stepFilterList(g, d.randPos, seed)
       /\ \A i \in DOMAIN paths : \A j \in DOMAIN paths : paths[i].path = paths[j].path => i = j
       /\ \A dir \in Range(Directions) :
            (\E e \in Range(paths) : e.path = <<Toward(d.randPos, dir)>> /\ e.filter = seed)
              <=> Explores(g, Toward(d.randPos, dir), seed, <<>>)
       /\ \A e \in Range(paths) :
            LET path == e.path
                pos == path[Len(path)]
                newFilter == filter_union(filterSet(e.states))
            IN /\ \A i \in DOMAIN path : \A j \in DOMAIN path : path[i] = path[j] => i = j
               /\ Len(path) <= Cardinality(Uncollapsed(g))
               /\ \A i \in DOMAIN path : <<path[i].x, path[i].y>> \in Uncollapsed(g)
               /\ Orthogonal(<<path[1].x, path[1].y>>, <<d.randPos.x, d.randPos.y>>)
               /\ \A i \in 1..(Len(path) - 1) :
                    Orthogonal(<<path[i].x, path[i].y>>, <<path[i + 1].x, path[i + 1].y>>)
               /\ Explores(g, pos, e.filter, SubSeq(path, 1, Len(path) - 1))
               /\ e.states = FilterFilter(e.filter, g[pos.x][pos.y].states)
               /\ \A dir \in Range(Directions) :
                    (\E f \in Range(paths) :
                       f.path = Append(path, Toward(pos, dir)) /\ f.filter = newFilter)
                      <=> Explores(g, Toward(pos, dir), newFilter, path)

\* a step whose propagation reaches one Cell on two paths of different
\* lengths, each of which records a filter for it, while a call toward an
\* out-of-range position, one toward the CollapsedCell and one toward a Cell
\* already on the path record nothing
TwoPathsDepositForOneCell ==
  last = "step" /\ \E d \in stepDraws(grid) :
    LET g == Stored(grid, d)
        seed == Constraints(getName(d.collapsedSquare.state)).states
        paths == stepPaths(g, d.randPos, seed)
    IN \E e \in Range(paths), f \in Range(paths) :
         LET pos == e.path[Len(e.path)]
         IN /\ pos = f.path[Len(f.path)]
            /\ Len(e.path) < Len(f.path)
            /\ Len(ObjGet(stepFilterList(g, d.randPos, seed), JSONstringify(pos))) >= 2
            /\ \E dir \in Range(Directions) :
                 <<Toward(pos, dir).x, Toward(pos, dir).y>> \notin Positions(g)
            /\ \E dir \in Range(Directions) : Toward(pos, dir) = d.randPos
            /\ \E dir \in Range(Directions) :
                 /\ SeqIncludes(f.path, Toward(pos, dir))
                 /\ ~FilterHasAll(filter_union(filterSet(f.states)))

\* ---------------------------------------------------------------------
\* h is g moved forward: the same positions, every CollapsedCell of g
\* unchanged, and every Cell of g either a Cell with no candidate added or a
\* CollapsedCell
MovedForward(g, h) ==
  /\ Positions(h) = Positions(g)
  /\ \A p \in Collapsed(g) : h[p[1]][p[2]] = g[p[1]][p[2]]
  /\ \A p \in Uncollapsed(g) :
       IsCell(h[p[1]][p[2]]) =>
         Range(h[p[1]][p[2]].states) \subseteq Range(g[p[1]][p[2]].states)

\* the positions one propagation records a filter for
RecordedPositions(g, filterList) ==
  {<<JSONparse(g, filterList[i].key).x, JSONparse(g, filterList[i].key).y>> : i \in DOMAIN filterList}

\* for every step the engine can take, the propagation records filters for
\* uncollapsed Cells only and leaves every CollapsedCell as it is
RecordsForCellsOnly ==
  \A d \in stepDraws(grid) :
    LET g == Stored(grid, d)
        seed == Constraints(getName(d.collapsedSquare.state)).states
        filterList == stepFilterList(g, d.randPos, seed)
    IN /\ RecordedPositions(g, filterList) \subseteq Uncollapsed(g)
       /\ RecordedPositions(g, filterList) \cap (Collapsed(grid) \cup {<<d.randPos.x, d.randPos.y>>}) = {}
       /\ \A p \in Collapsed(g) :
            propagateFilter(g, filterList)[p[1]][p[2]] = g[p[1]][p[2]]

\* C20: between resets and resizes the grid only moves forward: every step,
\* of the step button or of a generate() call, adds no state to any Cell's
\* candidates, changes no existing CollapsedCell and turns none back into a
\* Cell; and in every reachable state the propagation of every step the
\* engine can take records and applies filters for uncollapsed Cells only.
GridOnlyMovesForward ==
  /\ []RecordsForCellsOnly
  /\ [][Called("step") => MovedForward(grid, grid')]_vars

\* a step was taken next to CollapsedCells: three cells are collapsed, a
\* Cell with fewer than seven candidates is left, and a further step would
\* record a filter for a Cell that has a CollapsedCell as a neighbour
SteppedNextToCollapsed ==
  /\ last = "step"
  /\ Cardinality(Collapsed(grid)) >= 3
  /\ \E d \in stepDraws(grid) :
       LET g == Stored(grid, d)
           seed == Constraints(getName(d.collapsedSquare.state)).states
       IN \E p \in RecordedPositions(g, stepFilterList(g, d.randPos, seed)) :
            /\ entropy(grid[p[1]][p[2]]) < allConstraintsLength
            /\ \E q \in Collapsed(grid) : Orthogonal(p, q)

\* ---------------------------------------------------------------------
\* step() on a grid that cannot step has one outcome: it returns, and the
\* matrix is the one it found
StepReturnsAtOnce == ~canStep(grid) => step(grid) = {[thrown |-> "none", grid |-> grid]}

\* C21: step() called when canStep() is false, on a Terminal grid or on a
\* grid with no positions, is a no-op: it returns without raising, no cell,
\* no candidate set, neither width nor height changes, and canStep() is
\* still false afterwards, so the grid stays Terminal under any number of
\* further step() calls.  The calls are those of the step button and of
\* generate().
StepOnTerminalIsNoOp ==
  /\ []StepReturnsAtOnce
  /\ [][(Called("step") /\ ~canStep(grid)) =>
         /\ grid' = grid
         /\ width' = width
         /\ height' = height
         /\ thrown' = "none"
         /\ ~canStep(grid')
         /\ Terminal(grid')]_vars

\* step() was called on a grid of width 1 or more and height 0, which has
\* no positions
SteppedOnGridWithoutPositions ==
  /\ last = "step"
  /\ Constructed
  /\ thrown = "none"
  /\ width.n >= 1
  /\ height.n = 0
  /\ Positions(grid) = {}

\* ---------------------------------------------------------------------
\* no state lies between a collapse and the end of its propagation: running
\* the propagation again from any CollapsedCell changes nothing
PropagationFinalized ==
  \A p \in Collapsed(grid) : propagate(grid, grid[p[1]][p[2]]) = grid
\* a width or height set
ResizeCalled == Called("width") \/ Called("height")

\* the run awaits sleep(1) and the host has just set a valid width or
\* height: the grid is reinitialized
ResizedAtYield ==
  /\ pc = "sleep"
  /\ last \in {"width", "height"}
  /\ thrown = "none"

\* the run is over: its last generate() call enabled the inputs, and every
\* cell is collapsed
RunEnded == pc = "idle" /\ ~disabled /\ Terminal(grid)

GenerateClicked == pc = "idle" /\ pc' = "run"

\* a run the generate button has just started: its first generate() call
\* has not stepped yet
RunStarted == pc = "run" /\ last \in {"generate", "reset"}

\* C23: the generate command resets the grid before running only when the
\* grid is Terminal.  Clicked on a grid without an uncollapsed Cell it
\* replaces the matrix by fresh Cells, width and height unchanged; clicked
\* on a grid with an uncollapsed Cell it leaves the matrix as it is.  The
\* run that follows changes no CollapsedCell and adds no candidate, and it
\* ends with the inputs enabled and every cell collapsed.
GenerateResetsTerminalOnly ==
  /\ [][GenerateClicked =>
         /\ depth' = 1
         /\ UNCHANGED <<width, height>>
         /\ Positions(grid') = Positions(grid)
         /\ Terminal(grid) => (last' = "reset" /\ AllFresh(grid'))
         /\ ~Terminal(grid) => (last' = "generate" /\ grid' = grid)]_vars
  /\ [][(pc = "run" \/ pc = "sleep") =>
         /\ width' = width
         /\ height' = height
         /\ MovedForward(grid, grid')]_vars
  /\ RunStarted ~> RunEnded

\* the generate button was clicked on a grid with collapsed and uncollapsed
\* cells: the run starts on the matrix as the steps before left it
GenerateOnPartlyCollapsedGrid ==
  /\ pc = "run"
  /\ depth = 1
  /\ last = "generate"
  /\ Cardinality(Collapsed(grid)) >= 2
  /\ Cardinality(Uncollapsed(grid)) >= 2

\* ---------------------------------------------------------------------
\* a setter outcome that raised left width, height and the matrix as they
\* are now, and what it raised is ScalingError
FailedLeavesGrid(r) ==
  r.thrown # "none" =>
    /\ r.thrown = "ScalingError"
    /\ r.width = width
    /\ r.height = height
    /\ r.grid = grid

\* every width or height set that fails on the current grid, with any value
\* handed to the setter, leaves the grid as it is
FailedSetKeepsGrid ==
  \A val \in JsValues :
    /\ FailedLeavesGrid(SetWidthResult(width, height, grid, val))
    /\ FailedLeavesGrid(SetHeightResult(width, height, grid, val))

\* C24: a width or height set that fails with ScalingError leaves the grid
\* exactly as it was: width, height, and every cell's kind, candidates and
\* collapsed state are unchanged, in every state reachable by step, run,
\* reset and resize; a run in flight is not disturbed either.
FailedSetLeavesGridAsItWas ==
  /\ []FailedSetKeepsGrid
  /\ [][(ResizeCalled /\ thrown' # "none") =>
         /\ thrown' = "ScalingError"
         /\ UNCHANGED <<grid, width, height, pc, depth, disabled>>]_vars

\* a width or height set raised ScalingError on a grid that steps had
\* worked on: a CollapsedCell and a Cell with fewer than seven candidates
\* are still there
FailedSetOnSteppedGrid ==
  /\ last \in {"width", "height"}
  /\ thrown = "ScalingError"
  /\ Cardinality(Positions(grid)) >= 4
  /\ Collapsed(grid) # {}
  /\ \E p \in Uncollapsed(grid) : entropy(grid[p[1]][p[2]]) < allConstraintsLength

============================================================================
